---- MODULE Spec2Model ----
(***************************************************************************)
(* A model of firefly_dashboard.py: the record loader (load_data behind    *)
(* st.cache_data), the filter / aggregation / series functions and main.   *)
(*                                                                         *)
(* Values.  A timestamp is <<day, hour>> (day 1 = 2024-01-01); pd.NaT is   *)
(* <<>>.  A number is <<v>>; NaN is <<>>.  A DataFrame is the sequence of   *)
(* its rows, in index order.  Text cells of the CSV are strings.           *)
(***************************************************************************)
EXTENDS Integers, Sequences, FiniteSets, TLC

\* Bounds of the model.
MaxRows == 2       \* rows of a CSV file the functions are called on

VARIABLES
    file,    \* what is stored at the path "firefly_export.csv"
    cache,   \* st.cache_data's memo of load_data("firefly_export.csv")
    data,    \* the table the last load_data call returned
    call,    \* the last call made: its name, arguments and result; for main,
             \* what the run put on the screen
    widgets  \* the values Streamlit keeps for the widgets of main

vars == <<file, cache, data, call, widgets>>

-----------------------------------------------------------------------------
(* Values of pandas                                                        *)

NaT == <<>>
NaN == <<>>
Num(v) == <<v>>
Missing == "<NA>"   \* an empty CSV cell, read by pd.read_csv as NaN

Abs(x) == IF x < 0 THEN -x ELSE x
Min(a, b) == IF a < b THEN a ELSE b

\* The date strings the CSV files of the model use, with what
\* dateutil.parser.parse makes of them; any other string raises.
DateText ==
    "2024-01-05" :> <<5, 0>> @@ "2024-01-10" :> <<10, 0>> @@
    "2024-01-10 20:00" :> <<10, 20>> @@ "2024-01-15" :> <<15, 0>> @@
    "2024-02-01" :> <<32, 0>> @@
    "2024-01-05 00:00:00" :> <<5, 0>> @@ "2024-01-10 00:00:00" :> <<10, 0>> @@
    "2024-01-10 20:00:00" :> <<10, 20>> @@ "2024-01-15 00:00:00" :> <<15, 0>> @@
    "2024-02-01 00:00:00" :> <<32, 0>>

\* The numeric strings the CSV files of the model use.
NumberText ==
    "0" :> 0 @@ "50" :> 50 @@ "-50" :> -50 @@ "100" :> 100 @@ "500" :> 500 @@
    "0.0" :> 0 @@ "50.0" :> 50 @@ "100.0" :> 100 @@ "500.0" :> 500

\* Category labels in Python's string order.
CategoryOrder == <<"Food", "Rent", "Salary", "Uncategorized">>
AllCategories == {CategoryOrder[i] : i \in 1..Len(CategoryOrder)}
Rank(c) == CHOOSE i \in 1..Len(CategoryOrder) : CategoryOrder[i] = c

-----------------------------------------------------------------------------
(* CSV files                                                               *)

RawRow(d, a, c, t, s) ==
    [date |-> d, amount |-> a, category |-> c, type |-> t, description |-> s]

RowPool == {
    RawRow("2024-01-05", "100", "Food", "Withdrawal", "groceries"),
    RawRow("2024-01-10", "50", "Food", "Withdrawal", "lunch"),
    RawRow("2024-01-15", "500", "Salary", "Deposit", "paycheck"),
    RawRow("2024-01-10 20:00", "-50", "Rent", "Withdrawal", "rent share"),
    RawRow("not-a-date", "100", "Food", "Deposit", "refund"),
    RawRow("2024-02-01", "abc", Missing, "Withdrawal", "cash"),
    RawRow("2024-01-10", "0", "Rent", "Withdrawal", "waived fee"),
    RawRow("2024-01-15", "50", Missing, "Transfer", "to savings"),
    RawRow("2024-01-10", "-50", "Salary", "Deposit", "bonus") }

\* Scenario A of the specification.
ScenarioA == <<
    RawRow("2024-01-05", "100", "Food", "Withdrawal", "groceries"),
    RawRow("2024-01-10", "50", "Food", "Withdrawal", "lunch"),
    RawRow("2024-01-15", "500", "Salary", "Deposit", "paycheck") >>

\* The exports the app is run on (AppSpec).
AppCsv == {
    ScenarioA,
    << RawRow("2024-01-10", "50", "Food", "Withdrawal", "lunch"),
       RawRow("2024-02-01", "abc", Missing, "Withdrawal", "cash") >>,
    << RawRow("2024-01-15", "500", "Salary", "Deposit", "paycheck") >>,
    << RawRow("not-a-date", "100", "Food", "Deposit", "refund") >> }

CsvUpTo(n) == UNION {[1..k -> RowPool] : k \in 1..n}

Readable(rows) == [readable |-> TRUE, rows |-> rows]
Unreadable == [readable |-> FALSE, rows |-> <<>>]

Files == {Readable(rows) : rows \in CsvUpTo(MaxRows) \cup {ScenarioA}}
AppFiles == {Readable(rows) : rows \in AppCsv} \cup {Unreadable}

-----------------------------------------------------------------------------
(* load_data                                                               *)

parse_date(date_string) ==
    IF date_string \in DOMAIN DateText THEN DateText[date_string] ELSE NaT

to_numeric(text) ==
    IF text \in DOMAIN NumberText THEN Num(NumberText[text]) ELSE NaN

\* abs with a fault, to test the properties against: the sign is kept.
abs_signed(x) == x

abs(x) == IF x = NaN THEN NaN ELSE Num(Abs(x[1]))

fillna(x, value) == IF x = Missing THEN value ELSE x

\* df['date'].dt.to_period('M').astype(str)
to_period_M(ts) == IF ts[1] <= 31 THEN "2024-01" ELSE "2024-02"

\* df['date'].dt.date
dt_date(ts) == ts[1]

\* The body of load_data on the rows pd.read_csv returned.
Normalize(rows) ==
    LET parsed == [i \in 1..Len(rows) |->
                     [rows[i] EXCEPT !.date = parse_date(@)]]
        kept == SelectSeq(parsed, LAMBDA r : r.date # NaT)
    IN  [i \in 1..Len(kept) |->
           [date |-> kept[i].date,
            month |-> to_period_M(kept[i].date),
            amount |-> abs(to_numeric(kept[i].amount)),
            category |-> fillna(kept[i].category, "Uncategorized"),
            type |-> kept[i].type,
            description |-> kept[i].description]]

\* The columns of the table pd.read_csv returned.
csv_columns(rows) == IF rows = <<>> THEN {} ELSE DOMAIN rows[1]

\* The body of load_data on the file at the path: pd.read_csv raises on a
\* file it cannot read, and df['date'], df['amount'] and df['category'] raise
\* KeyError on a table without that column.
read_and_normalize(f) ==
    IF ~f.readable THEN [raised |-> TRUE, value |-> <<>>, parsed |-> FALSE]
    ELSE IF ~({"date", "amount", "category"} \subseteq csv_columns(f.rows))
    THEN [raised |-> TRUE, value |-> <<>>, parsed |-> FALSE]
    ELSE [raised |-> FALSE, value |-> Normalize(f.rows), parsed |-> TRUE]

NoData == [loaded |-> FALSE, rows |-> <<>>]
Loaded(rows) == [loaded |-> TRUE, rows |-> rows]

\* load_data(path) under @st.cache_data: the memo is keyed by the argument
\* (the path), so a hit returns the stored table without reading the file;
\* a call that raises stores nothing.
load_data ==
    IF cache.loaded THEN [raised |-> FALSE, value |-> cache.rows, parsed |-> FALSE]
    ELSE read_and_normalize(file)

CallLoadData ==
    LET r == load_data IN
    /\ call.op = "none"
    /\ cache' = IF r.raised THEN cache ELSE Loaded(r.value)
    /\ data' = IF r.raised THEN data ELSE Loaded(r.value)
    /\ call' = [op |-> "load_data", raised |-> r.raised, parsed |-> r.parsed,
                content |-> file]
    /\ UNCHANGED <<file, widgets>>

-----------------------------------------------------------------------------
(* Helpers of pandas used by the functions below                           *)

RECURSIVE SumSeq(_)
SumSeq(s) == IF s = <<>> THEN 0 ELSE s[1] + SumSeq(Tail(s))

\* Series.sum() of the amount column: NaN is skipped, the empty sum is 0.
sum_amount(rows) ==
    LET nums == SelectSeq(rows, LAMBDA r : r.amount # NaN)
    IN  SumSeq([i \in 1..Len(nums) |-> nums[i].amount[1]])

of_type(rows, t) == SelectSeq(rows, LAMBDA r : r.type = t)

Remove(s, i) == [j \in 1..(Len(s) - 1) |-> IF j < i THEN s[j] ELSE s[j + 1]]

\* groupby('category')['amount'].sum(): one entry per category present, in
\* the order of the (sorted) group keys.
groupby_category_sum(rows) ==
    LET present == {rows[i].category : i \in 1..Len(rows)}
        keys == SelectSeq(CategoryOrder, LAMBDA c : c \in present)
    IN  [k \in 1..Len(keys) |->
           [category |-> keys[k],
            amount |-> sum_amount(SelectSeq(rows, LAMBDA r : r.category = keys[k]))]]

\* nlargest with a fault, to test the properties against: among equal
\* values the last occurrence comes first (keep='last').
RECURSIVE nlargest_last(_, _)
nlargest_last(s, n) ==
    IF n <= 0 \/ s = <<>> THEN <<>>
    ELSE LET i == CHOOSE i \in 1..Len(s) :
                      /\ \A j \in 1..Len(s) : s[j].amount <= s[i].amount
                      /\ \A j \in (i + 1)..Len(s) : s[j].amount < s[i].amount
         IN  <<s[i]>> \o nlargest_last(Remove(s, i), n - 1)

\* Series.nlargest(n), keep='first': the n largest values in descending
\* order; among equal values the one that occurs first comes first.
RECURSIVE nlargest(_, _)
nlargest(s, n) ==
    IF n <= 0 \/ s = <<>> THEN <<>>
    ELSE LET i == CHOOSE i \in 1..Len(s) :
                      /\ \A j \in 1..Len(s) : s[j].amount <= s[i].amount
                      /\ \A j \in 1..(i - 1) : s[j].amount < s[i].amount
         IN  <<s[i]>> \o nlargest(Remove(s, i), n - 1)

\* sort_values('amount', ascending=False); equal amounts keep their order.
sort_values_desc(s) == nlargest(s, Len(s))

\* The sorted distinct timestamps of a set (the index groupby builds).
TsKey(ts) == ts[1] * 24 + ts[2]
RECURSIVE SortedTimestamps(_)
SortedTimestamps(S) ==
    IF S = {} THEN <<>>
    ELSE LET m == CHOOSE x \in S : \A y \in S : TsKey(x) <= TsKey(y)
         IN  <<m>> \o SortedTimestamps(S \ {m})

-----------------------------------------------------------------------------
(* create_overview                                                         *)

DateMask(r, start_date, end_date) ==
    dt_date(r.date) >= start_date /\ dt_date(r.date) <= end_date

\* create_overview with a fault, to test the properties against: every row
\* that is no Deposit counts as an expense.
create_overview_rest(df, start_date, end_date) ==
    LET filtered_df == SelectSeq(df, LAMBDA r : DateMask(r, start_date, end_date))
        total_income == sum_amount(of_type(filtered_df, "Deposit"))
        total_expenses == sum_amount(SelectSeq(filtered_df, LAMBDA r : r.type # "Deposit"))
    IN  <<total_income, total_expenses, total_income - total_expenses>>

create_overview(df, start_date, end_date) ==
    LET filtered_df == SelectSeq(df, LAMBDA r : DateMask(r, start_date, end_date))
        total_income == sum_amount(of_type(filtered_df, "Deposit"))
        total_expenses == sum_amount(of_type(filtered_df, "Withdrawal"))
        net_savings == total_income - total_expenses
    IN  <<total_income, total_expenses, net_savings>>

-----------------------------------------------------------------------------
(* create_time_series                                                      *)

\* groupby(['date', 'type'])['amount'].sum().unstack(fill_value=0): a row
\* per distinct value of the date column, a column per type present.
daily_summary_index(filtered_df) ==
    SortedTimestamps({filtered_df[i].date : i \in 1..Len(filtered_df)})

daily_summary_columns(filtered_df) ==
    {filtered_df[i].type : i \in 1..Len(filtered_df)}

daily_cell(filtered_df, ts, t) ==
    sum_amount(SelectSeq(filtered_df, LAMBDA r : r.date = ts /\ r.type = t))

\* The result is the figure's three traces, or None; error is TRUE when the
\* except branch ran (st.error was called).
create_time_series(df, start_date, end_date) ==
    LET filtered_df == SelectSeq(df, LAMBDA r : DateMask(r, start_date, end_date))
        index == daily_summary_index(filtered_df)
        columns == daily_summary_columns(filtered_df)
    IN  IF filtered_df = <<>> THEN [kind |-> "None", error |-> FALSE]
        ELSE IF "Deposit" \notin columns \/ "Withdrawal" \notin columns
        THEN [kind |-> "None", error |-> TRUE]      \* KeyError, caught
        ELSE [kind |-> "fig", error |-> FALSE,
              rows |-> [i \in 1..Len(index) |->
                 [date |-> index[i],
                  Deposit |-> daily_cell(filtered_df, index[i], "Deposit"),
                  Withdrawal |-> daily_cell(filtered_df, index[i], "Withdrawal"),
                  Net |-> daily_cell(filtered_df, index[i], "Deposit")
                          - daily_cell(filtered_df, index[i], "Withdrawal")]]]

-----------------------------------------------------------------------------
(* get_top_categories                                                      *)

\* TopMask with a fault, to test the properties against: the category
\* selection is not applied.
TopMask_any_category(r, start_date, end_date, selected_categories) ==
    /\ dt_date(r.date) >= start_date
    /\ dt_date(r.date) <= end_date

TopMask(r, start_date, end_date, selected_categories) ==
    /\ dt_date(r.date) >= start_date
    /\ dt_date(r.date) <= end_date
    /\ r.category \in selected_categories

top_type(category_type) ==
    IF category_type = "Income" THEN "Deposit" ELSE "Withdrawal"

top_data(df, category_type, start_date, end_date, selected_categories) ==
    LET filtered_df ==
            SelectSeq(df, LAMBDA r : TopMask(r, start_date, end_date, selected_categories))
    IN  of_type(filtered_df, top_type(category_type))

get_top_categories(df, category_type, n, start_date, end_date, selected_categories) ==
    nlargest(groupby_category_sum(
                 top_data(df, category_type, start_date, end_date, selected_categories)), n)

-----------------------------------------------------------------------------
(* create_expense_pie_chart                                                *)

\* PieMask with a fault, to test the properties against: end_date is excluded.
PieMask_open_end(r, selected_categories, start_date, end_date) ==
    /\ r.category \in selected_categories
    /\ dt_date(r.date) >= start_date
    /\ dt_date(r.date) < end_date
    /\ r.type = "Withdrawal"

PieMask(r, selected_categories, start_date, end_date) ==
    /\ r.category \in selected_categories
    /\ dt_date(r.date) >= start_date
    /\ dt_date(r.date) <= end_date
    /\ r.type = "Withdrawal"

pie_filtered_df(df, selected_categories, start_date, end_date) ==
    SelectSeq(df, LAMBDA r : PieMask(r, selected_categories, start_date, end_date))

\* (amount / total_amount) * 100 as the fraction <<100 * amount, total>>;
\* the amounts are >= 0, so a zero total makes every quotient 0/0 = NaN.
percentage(amount, total_amount) ==
    IF total_amount = 0 THEN NaN ELSE <<100 * amount, total_amount>>

\* percentage >= threshold, the threshold a fraction <<p, q>>; a comparison
\* with NaN is False.
ge_threshold(pct, threshold) ==
    IF pct = NaN THEN FALSE ELSE pct[1] * threshold[2] >= threshold[1] * pct[2]

create_expense_pie_chart(df, selected_categories, start_date, end_date, threshold) ==
    LET filtered_df == pie_filtered_df(df, selected_categories, start_date, end_date)
        grouped_df == sort_values_desc(groupby_category_sum(filtered_df))
        total_amount == SumSeq([i \in 1..Len(grouped_df) |-> grouped_df[i].amount])
        with_pct == [i \in 1..Len(grouped_df) |->
                       [category |-> grouped_df[i].category,
                        amount |-> grouped_df[i].amount,
                        percentage |-> percentage(grouped_df[i].amount, total_amount)]]
    IN  IF filtered_df = <<>> THEN [kind |-> "None", error |-> FALSE]
        ELSE [kind |-> "fig", error |-> FALSE,
              grouped |-> with_pct,
              rows |-> SelectSeq(with_pct,
                                 LAMBDA g : ge_threshold(g.percentage, threshold))]

-----------------------------------------------------------------------------
(* Arguments the functions are called with                                 *)

DateChoices == {1, 10, 31}
SelChoices == SUBSET AllCategories
TopNs == {1, 2, 3}
TypeChoices == {"Income", "Expenses"}
Thresholds == {<<0, 1>>, <<1, 2>>, <<50, 1>>}    \* 0, 0.5 and 50 percent

\* The functions are called on the table load_data returned: a behaviour of
\* Spec is a load followed by one call.
Returned(op) == call.op = op /\ ~call.raised /\ data.loaded

CallCreateOverview ==
    /\ Returned("load_data")
    /\ \E sd \in DateChoices, ed \in DateChoices :
         call' = [op |-> "create_overview", start_date |-> sd, end_date |-> ed,
                  result |-> create_overview(data.rows, sd, ed)]
    /\ UNCHANGED <<file, cache, data, widgets>>

CallCreateTimeSeries ==
    /\ Returned("load_data")
    /\ \E sd \in DateChoices, ed \in DateChoices :
         call' = [op |-> "create_time_series", start_date |-> sd, end_date |-> ed,
                  result |-> create_time_series(data.rows, sd, ed)]
    /\ UNCHANGED <<file, cache, data, widgets>>

CallGetTopCategories ==
    /\ Returned("load_data")
    /\ \E sd \in DateChoices, ed \in DateChoices, sel \in SelChoices,
          t \in TypeChoices, n \in TopNs :
         call' = [op |-> "get_top_categories", category_type |-> t, n |-> n,
                  start_date |-> sd, end_date |-> ed, selected_categories |-> sel,
                  filtered |-> top_data(data.rows, t, sd, ed, sel),
                  result |-> get_top_categories(data.rows, t, n, sd, ed, sel)]
    /\ UNCHANGED <<file, cache, data, widgets>>

CallCreateExpensePieChart ==
    /\ Returned("load_data")
    /\ \E sd \in DateChoices, ed \in DateChoices, sel \in SelChoices,
          th \in Thresholds :
         call' = [op |-> "create_expense_pie_chart", selected_categories |-> sel,
                  start_date |-> sd, end_date |-> ed, threshold |-> th,
                  filtered |-> pie_filtered_df(data.rows, sel, sd, ed),
                  result |-> create_expense_pie_chart(data.rows, sel, sd, ed, th)]
    /\ UNCHANGED <<file, cache, data, widgets>>

-----------------------------------------------------------------------------
(* create_bar_charts                                                       *)

MonthOrder == <<"2024-01", "2024-02">>

BarMask(r, selected_categories, start_date, end_date) ==
    /\ r.category \in selected_categories
    /\ dt_date(r.date) >= start_date
    /\ dt_date(r.date) <= end_date

\* groupby(['month', 'category'])['amount'].sum().reset_index() of the rows
\* of one month.
month_group(rows, m) ==
    LET g == groupby_category_sum(SelectSeq(rows, LAMBDA r : r.month = m))
    IN  [k \in 1..Len(g) |->
           [month |-> m, category |-> g[k].category, amount |-> g[k].amount]]

groupby_month_category_sum(rows) ==
    month_group(rows, MonthOrder[1]) \o month_group(rows, MonthOrder[2])

\* ... .sort_values(['month', 'amount'], ascending=[True, False])
expense_grouped_sorted(rows) ==
    sort_values_desc(month_group(rows, MonthOrder[1]))
        \o sort_values_desc(month_group(rows, MonthOrder[2]))

create_bar_charts(df, selected_categories, start_date, end_date) ==
    LET filtered_df ==
            SelectSeq(df, LAMBDA r : BarMask(r, selected_categories, start_date, end_date))
    IN  IF filtered_df = <<>> THEN [kind |-> "None", error |-> FALSE]
        ELSE [kind |-> "fig", error |-> FALSE,
              income |-> groupby_month_category_sum(of_type(filtered_df, "Deposit")),
              expense |-> expense_grouped_sorted(of_type(filtered_df, "Withdrawal"))]

-----------------------------------------------------------------------------
(* get_transactions                                                        *)

\* The category argument is a Series aligned with df: main passes the
\* category column itself for "All" and a label, broadcast, otherwise.
Broadcast(df, label) == [i \in 1..Len(df) |-> label]
CategoryColumn(df) == [i \in 1..Len(df) |-> df[i].category]

\* sort_values with a fault, to test the properties against: the rows stay
\* in the order of the table.
sort_date_kept(rows) == rows

\* sort_values('date', ascending=False): rows of equal date keep their order.
RECURSIVE sort_date_desc(_)
sort_date_desc(rows) ==
    IF rows = <<>> THEN <<>>
    ELSE LET i == CHOOSE i \in 1..Len(rows) :
                      /\ \A j \in 1..Len(rows) : TsKey(rows[j].date) <= TsKey(rows[i].date)
                      /\ \A j \in 1..(i - 1) : TsKey(rows[j].date) < TsKey(rows[i].date)
         IN  <<rows[i]>> \o sort_date_desc(Remove(rows, i))

get_transactions(df, category, month) ==
    LET idx == SelectSeq([i \in 1..Len(df) |-> i],
                         LAMBDA i : df[i].category = category[i] /\ df[i].month = month)
        transactions == sort_date_desc([k \in 1..Len(idx) |-> df[idx[k]]])
    IN  [k \in 1..Len(transactions) |->
           [date |-> transactions[k].date,
            description |-> transactions[k].description,
            amount |-> transactions[k].amount,
            type |-> transactions[k].type]]

GetChoices == {"All"} \cup AllCategories

\* get_transactions is called as main calls it: with the category column
\* for "All", with a label otherwise.
CallGetTransactions ==
    /\ Returned("load_data")
    /\ \E c \in GetChoices, m \in {MonthOrder[k] : k \in 1..Len(MonthOrder)} :
         call' = [op |-> "get_transactions", raised |-> FALSE,
                  category |-> c, month |-> m,
                  result |-> get_transactions(
                                 data.rows,
                                 IF c = "All" THEN CategoryColumn(data.rows)
                                 ELSE Broadcast(data.rows, c),
                                 m)]
    /\ UNCHANGED <<file, cache, data, widgets>>

-----------------------------------------------------------------------------
(* The download: transactions.to_csv(index=False)                          *)

\* A datetime64 column is written as dates when every value is at midnight
\* and as date and time otherwise.
DateOut ==
    <<5, 0>> :> "2024-01-05" @@ <<10, 0>> :> "2024-01-10" @@
    <<15, 0>> :> "2024-01-15" @@ <<32, 0>> :> "2024-02-01"
DateTimeOut ==
    <<5, 0>> :> "2024-01-05 00:00:00" @@ <<10, 0>> :> "2024-01-10 00:00:00" @@
    <<10, 20>> :> "2024-01-10 20:00:00" @@ <<15, 0>> :> "2024-01-15 00:00:00" @@
    <<32, 0>> :> "2024-02-01 00:00:00"

\* An int64 column is written as integers, a float64 column with a decimal
\* point and NaN as the empty cell.
IntOut == 0 :> "0" @@ 50 :> "50" @@ 100 :> "100" @@ 500 :> "500"
FloatOut == 0 :> "0.0" @@ 50 :> "50.0" @@ 100 :> "100.0" @@ 500 :> "500.0"

\* The amount column of the table is float64 when pd.to_numeric met a value
\* it had to coerce, int64 otherwise; a selection of the table keeps it.
is_float(df) == \E i \in 1..Len(df) : df[i].amount = NaN

\* The rows pd.read_csv reads from the text to_csv wrote: the columns are
\* those of the frame written, and the empty cell is read as missing.
to_csv(transactions, float_amount) ==
    LET dates_only == \A k \in 1..Len(transactions) : transactions[k].date[2] = 0
    IN  [k \in 1..Len(transactions) |->
           [date |-> IF dates_only THEN DateOut[transactions[k].date]
                     ELSE DateTimeOut[transactions[k].date],
            description |-> transactions[k].description,
            amount |-> IF transactions[k].amount = NaN THEN Missing
                       ELSE IF float_amount THEN FloatOut[transactions[k].amount[1]]
                       ELSE IntOut[transactions[k].amount[1]],
            type |-> transactions[k].type]]

\* The downloaded CSV is passed to load_data: a path load_data has not been
\* called with, so its memo holds nothing for it.
CallLoadDataOnExport ==
    /\ Returned("get_transactions")
    /\ call.result # <<>>
    /\ LET csv == to_csv(call.result, is_float(data.rows))
           r == read_and_normalize(Readable(csv))
       IN  call' = [op |-> "load_data_export", raised |-> r.raised,
                    lookup |-> call.result, csv |-> csv, value |-> r.value]
    /\ UNCHANGED <<file, cache, data, widgets>>

-----------------------------------------------------------------------------
(* main                                                                    *)

\* sorted(data['category'].unique())
categories_of(df) ==
    SelectSeq(CategoryOrder, LAMBDA c : \E i \in 1..Len(df) : df[i].category = c)

\* sorted(data['month'].unique())
available_months_of(df) ==
    SelectSeq(MonthOrder, LAMBDA m : \E i \in 1..Len(df) : df[i].month = m)

min_date_of(df) == CHOOSE d \in {dt_date(df[i].date) : i \in 1..Len(df)} :
                       \A i \in 1..Len(df) : d <= dt_date(df[i].date)
max_date_of(df) == CHOOSE d \in {dt_date(df[i].date) : i \in 1..Len(df)} :
                       \A i \in 1..Len(df) : d >= dt_date(df[i].date)

\* date.month of a day of the model's calendar (all days are of 2024).
month_of_day(d) == IF d <= 31 THEN 1 ELSE 2

\* The descriptions of the model's rows that contain a search term
\* (str.contains(search_term, case=False)).
SearchHits == "lunch" :> {"lunch"}

\* The income / expense summary of main: per category the total, the number
\* of amounts, total / num_months and the share of the total, by total
\* descending.  Quotients are kept as fractions <<p, q>>.
category_summary(df, t, selected_categories, start_date, end_date) ==
    LET rows == SelectSeq(df, LAMBDA r :
                    /\ r.type = t
                    /\ r.category \in selected_categories
                    /\ dt_date(r.date) >= start_date
                    /\ dt_date(r.date) <= end_date)
        grouped == groupby_category_sum(rows)
        total_amount == SumSeq([k \in 1..Len(grouped) |-> grouped[k].amount])
        num_months == month_of_day(end_date) - month_of_day(start_date) + 1
        count(c) == Len(SelectSeq(rows, LAMBDA r : r.category = c /\ r.amount # NaN))
    IN  sort_values_desc(
          [k \in 1..Len(grouped) |->
             [category |-> grouped[k].category,
              amount |-> grouped[k].amount,
              count |-> count(grouped[k].category),
              average |-> <<grouped[k].amount, num_months>>,
              percent |-> percentage(grouped[k].amount, total_amount)]])

\* The values of the widgets on the first run over the table df.
DefaultWidgets(df) ==
    [set |-> TRUE,
     selected_categories |->
         {categories_of(df)[k] : k \in 1..Min(5, Len(categories_of(df)))},
     date_range |-> <<min_date_of(df), max_date_of(df)>>,
     threshold |-> <<1, 2>>,
     n |-> 5,
     selected_category |-> "All",
     selected_month |-> available_months_of(df)[Len(available_months_of(df))],
     search_term |-> ""]

NoWidgets == [set |-> FALSE]

\* Tab 2 of main: the transactions of the selected category and month.
transaction_details(df, w) ==
    LET found == IF w.selected_category = "All"
                 THEN get_transactions(df, CategoryColumn(df), w.selected_month)
                 ELSE get_transactions(df, Broadcast(df, w.selected_category),
                                       w.selected_month)
        transactions ==
            IF w.search_term # ""
            THEN SelectSeq(found, LAMBDA r : r.description \in SearchHits[w.search_term])
            ELSE found
    IN  [transactions |-> transactions,
         warning |-> transactions = <<>>,
         download |-> transactions # <<>>,
         total_amount |-> sum_amount(transactions)]

\* load_failed with a fault, to test the properties against: the except
\* branch does not return, and the run goes on to end on the unbound name data.
load_failed_no_return(w0) ==
    [op |-> "main", stage |-> "uncaught", at |-> "categories",
     errors |-> <<"Error loading data">>, sections |-> <<>>,
     widgets |-> w0, loaded |-> FALSE, parsed |-> FALSE]

\* The except branch of main's load: the error is reported and main returns.
load_failed(w0) ==
    [op |-> "main", stage |-> "load_error", at |-> "load_data",
     errors |-> <<"Error loading data">>, sections |-> <<>>,
     widgets |-> w0, loaded |-> FALSE, parsed |-> FALSE]

\* One run of main.  stage is where the run ended: "load_error" (reported,
\* main returned), "uncaught" (an exception no try block of main holds ended
\* the run at section `at`) or "done".  sections lists what was rendered.
main(w0) ==
    LET r == load_data
        df == r.value
        w == IF w0.set THEN w0 ELSE DefaultWidgets(df)
        selected_categories == w.selected_categories
        date_range == w.date_range
        is_pair == Len(date_range) = 2
        start_date == IF is_pair THEN date_range[1] ELSE date_range
        end_date == IF is_pair THEN date_range[2] ELSE date_range
        threshold == w.threshold
        n == w.n
        time_series_chart == create_time_series(df, start_date, end_date)
        charts == create_bar_charts(df, selected_categories, start_date, end_date)
        pie_chart == create_expense_pie_chart(df, selected_categories,
                                              start_date, end_date, threshold)
        skipped == [kind |-> "skipped", error |-> FALSE]
    IN  IF r.raised
        THEN load_failed(w0)
        ELSE IF df = <<>>
        THEN \* data['date'].min().date() on NaT raises
             [op |-> "main", stage |-> "uncaught", at |-> "date_input",
              errors |-> <<>>, sections |-> <<>>,
              widgets |-> w0, loaded |-> TRUE, parsed |-> r.parsed, table |-> df]
        ELSE IF ~is_pair
        THEN \* create_overview compares dates with a tuple: TypeError
             [op |-> "main", stage |-> "uncaught", at |-> "overview",
              errors |-> <<>>, sections |-> <<>>,
              widgets |-> w, loaded |-> TRUE, parsed |-> r.parsed, table |-> df]
        ELSE [op |-> "main", stage |-> "done", at |-> "end",
              errors |->
                  (IF time_series_chart.error
                   THEN <<"Error creating time series chart">> ELSE <<>>),
              sections |-> <<"overview", "time_series", "bar_charts", "pie_chart",
                             "top_income", "top_expenses", "income_summary",
                             "expense_summary", "transactions">>,
              widgets |-> w, loaded |-> TRUE, parsed |-> r.parsed, table |-> df,
              overview |-> create_overview(df, start_date, end_date),
              time_series |-> time_series_chart,
              bar_charts |-> IF selected_categories # {} THEN charts ELSE skipped,
              pie_chart |-> IF selected_categories # {} THEN pie_chart ELSE skipped,
              top_income |-> get_top_categories(df, "Income", n, start_date,
                                                end_date, selected_categories),
              top_expenses |-> get_top_categories(df, "Expenses", n, start_date,
                                                  end_date, selected_categories),
              income_summary |-> category_summary(df, "Deposit", selected_categories,
                                                  start_date, end_date),
              expense_summary |-> category_summary(df, "Withdrawal", selected_categories,
                                                   start_date, end_date),
              details |-> transaction_details(df, w)]

\* A script run: the screen is replaced by what main renders, load_data's
\* memo and the widget values are kept for the next run.
RunMain(w0) ==
    /\ call' = main(w0)
    /\ widgets' = call'.widgets
    /\ cache' = IF call'.loaded THEN Loaded(call'.table) ELSE cache
    /\ data' = IF call'.loaded THEN Loaded(call'.table) ELSE data
    /\ UNCHANGED file

\* The page is opened or rerun with the widgets as they are.
Rerun == RunMain(widgets)

\* The sidebar widgets are on the page once main has got past them.
SidebarShown ==
    /\ call.op = "main"
    /\ call.stage = "done" \/ (call.stage = "uncaught" /\ call.at = "overview")
PageShown == call.op = "main" /\ call.stage = "done"

\* The user changes one widget; Streamlit reruns the script.
SelectCategories ==
    /\ SidebarShown
    /\ \E sel \in SUBSET {categories_of(data.rows)[k] :
                             k \in 1..Len(categories_of(data.rows))} :
         RunMain([widgets EXCEPT !.selected_categories = sel])

\* st.date_input over [min_date, max_date]: a pair of dates, or a 1-tuple
\* while only the first date of the range is picked.
DateRangeChoices(df) ==
    LET ends == {min_date_of(df), max_date_of(df)}
    IN  {dr \in ends \X ends : dr[1] <= dr[2]} \cup {<<a>> : a \in ends}

SelectDateRange ==
    /\ SidebarShown
    /\ \E dr \in DateRangeChoices(data.rows) : RunMain([widgets EXCEPT !.date_range = dr])

ThresholdChoices == {<<0, 1>>, <<1, 2>>}             \* of the slider 0.0 .. 5.0 by 0.5

SelectThreshold ==
    /\ SidebarShown
    /\ \E th \in ThresholdChoices : RunMain([widgets EXCEPT !.threshold = th])

TopNChoices == {3, 5}                                \* of the slider 3 .. 10

SelectTopN ==
    /\ PageShown
    /\ \E n \in TopNChoices : RunMain([widgets EXCEPT !.n = n])

SelectCategory ==
    /\ PageShown
    /\ \E c \in {"All"} \cup {categories_of(data.rows)[k] :
                                 k \in 1..Len(categories_of(data.rows))} :
         RunMain([widgets EXCEPT !.selected_category = c])

SelectMonth ==
    /\ PageShown
    /\ \E m \in {available_months_of(data.rows)[k] :
                    k \in 1..Len(available_months_of(data.rows))} :
         RunMain([widgets EXCEPT !.selected_month = m])

EnterSearchTerm ==
    /\ PageShown
    /\ \E term \in {""} \cup DOMAIN SearchHits :
         RunMain([widgets EXCEPT !.search_term = term])

\* The export at the path is replaced (or removed) outside the program.
WriteFile ==
    /\ \E f \in AppFiles : f # file /\ file' = f
    /\ UNCHANGED <<cache, data, call, widgets>>

-----------------------------------------------------------------------------
Init ==
    /\ file \in Files
    /\ cache = NoData
    /\ data = NoData
    /\ call = [op |-> "none"]
    /\ widgets = NoWidgets

Next ==
    \/ CallLoadData
    \/ CallCreateOverview
    \/ CallCreateTimeSeries
    \/ CallGetTopCategories
    \/ CallCreateExpensePieChart
    \/ CallGetTransactions
    \/ CallLoadDataOnExport

Spec == Init /\ [][Next]_vars

\* The app: the page is opened on some export, the user works the widgets,
\* and the export changes underneath.
AppInit ==
    /\ file \in AppFiles
    /\ cache = NoData
    /\ data = NoData
    /\ call = [op |-> "none"]
    /\ widgets = NoWidgets

AppNext ==
    \/ Rerun
    \/ SelectCategories
    \/ SelectDateRange
    \/ SelectThreshold
    \/ SelectTopN
    \/ SelectCategory
    \/ SelectMonth
    \/ EnterSearchTerm
    \/ WriteFile

AppSpec == AppInit /\ [][AppNext]_vars

-----------------------------------------------------------------------------
(* Properties of the functions, stated over the loaded table row by row    *)

Range(s) == {s[i] : i \in DOMAIN s}
Occ(s, x) == Cardinality({i \in DOMAIN s : s[i] = x})
Day(r) == r.date[1]
AmountOr0(r) == IF r.amount = NaN THEN 0 ELSE r.amount[1]

RECURSIVE TotalOver(_, _)
TotalOver(rows, I) ==
    IF I = {} THEN 0
    ELSE LET i == CHOOSE i \in I : TRUE
         IN  AmountOr0(rows[i]) + TotalOver(rows, I \ {i})

InRange(r, sd, ed) == sd <= Day(r) /\ Day(r) <= ed
Passes(r, sel, sd, ed, t) == r.category \in sel /\ InRange(r, sd, ed) /\ r.type = t

\* view holds exactly the rows of the table that pass, each as often as the
\* table holds it.
IsFilteredView(view, sel, sd, ed, t) ==
    /\ \A x \in Range(view) : x \in Range(data.rows) /\ Passes(x, sel, sd, ed, t)
    /\ \A x \in Range(data.rows) :
         Passes(x, sel, sd, ed, t) => Occ(view, x) = Occ(data.rows, x)

\* C1: the filtered view of the pie chart and of get_top_categories holds a
\* row iff its category is selected, its calendar date lies in
\* [start_date, end_date] (both ends included) and its type is the one asked
\* for; no row is added and none is lost.
C1_FilteredView ==
    /\ call.op = "create_expense_pie_chart" =>
         IsFilteredView(call.filtered, call.selected_categories,
                        call.start_date, call.end_date, "Withdrawal")
    /\ call.op = "get_top_categories" =>
         IsFilteredView(call.filtered, call.selected_categories,
                        call.start_date, call.end_date,
                        IF call.category_type = "Income" THEN "Deposit" ELSE "Withdrawal")

\* A pie-chart view that keeps a row dated on end_date, at a time of day
\* after midnight, and leaves another row of the table out.
C1_Witness ==
    /\ call.op = "create_expense_pie_chart"
    /\ \E i \in DOMAIN call.filtered :
         Day(call.filtered[i]) = call.end_date /\ call.filtered[i].date[2] > 0
    /\ Len(call.filtered) < Len(data.rows)

\* C3: create_overview returns (income, expense, net): income the sum of the
\* in-range Deposit amounts, expense the sum of the in-range Withdrawal
\* amounts, rows of another type in neither, net = income - expense; on the
\* rows of Scenario A over January it returns (500, 150, 350).
C3_Overview ==
    call.op = "create_overview" =>
        LET rows == data.rows
            income == TotalOver(rows, {i \in DOMAIN rows :
                        InRange(rows[i], call.start_date, call.end_date)
                        /\ rows[i].type = "Deposit"})
            expense == TotalOver(rows, {i \in DOMAIN rows :
                        InRange(rows[i], call.start_date, call.end_date)
                        /\ rows[i].type = "Withdrawal"})
        IN  /\ call.result = <<income, expense, income - expense>>
            /\ (file.rows = ScenarioA /\ call.start_date = 1 /\ call.end_date = 31)
                 => call.result = <<500, 150, 350>>

C3_Witness ==
    /\ call.op = "create_overview"
    /\ file.rows = ScenarioA
    /\ call.start_date = 1 /\ call.end_date = 31
    /\ call.result = <<500, 150, 350>>

\* C4: for every non-empty set of in-range rows the daily series is produced,
\* and each entry has income = the sum of its date's Deposit amounts (0 when
\* there is none), expense = the sum of its date's Withdrawal amounts (0 when
\* there is none) and net = income - expense, also when the in-range rows
\* hold no Deposit at all or no Withdrawal at all.  ("Its date" is read here
\* as the entry's own key, so that the grouping key of C5 plays no part.)
C4_DailySeries ==
    call.op = "create_time_series" =>
        LET rows == data.rows
            inrange == {i \in DOMAIN rows :
                          InRange(rows[i], call.start_date, call.end_date)}
            of(e, t) == TotalOver(rows, {i \in inrange :
                          rows[i].date = e.date /\ rows[i].type = t})
        IN  inrange # {} =>
              /\ call.result.kind = "fig"
              /\ \A k \in DOMAIN call.result.rows :
                   LET e == call.result.rows[k] IN
                   /\ e.Deposit = of(e, "Deposit")
                   /\ e.Withdrawal = of(e, "Withdrawal")
                   /\ e.Net = e.Deposit - e.Withdrawal

\* C5: the daily series has exactly one entry per distinct calendar date
\* among the filtered rows, none for a date without a row, in strictly
\* ascending date order; rows of one calendar day at different times of day
\* fall in the same entry.
C5_OneEntryPerDay ==
    (call.op = "create_time_series" /\ call.result.kind = "fig") =>
        LET rows == data.rows
            series == call.result.rows
            days == {Day(rows[i]) : i \in {j \in DOMAIN rows :
                        InRange(rows[j], call.start_date, call.end_date)}}
        IN  /\ {series[k].date[1] : k \in DOMAIN series} = days
            /\ \A k \in 1..(Len(series) - 1) :
                 series[k].date[1] < series[k + 1].date[1]

\* C6: get_top_categories returns the per-category totals of the rows of the
\* type asked for, by total non-increasing, min(n, number of categories
\* present) of them; among equal totals, also at the cut-off, the category
\* with the smaller label comes first and is the one kept.
C6_TopCategories ==
    call.op = "get_top_categories" =>
        LET rows == data.rows
            t == IF call.category_type = "Income" THEN "Deposit" ELSE "Withdrawal"
            pass == {i \in DOMAIN rows :
                       Passes(rows[i], call.selected_categories,
                              call.start_date, call.end_date, t)}
            cats == {rows[i].category : i \in pass}
            total(c) == TotalOver(rows, {i \in pass : rows[i].category = c})
            Before(c, d) == total(c) > total(d)
                            \/ (total(c) = total(d) /\ Rank(c) < Rank(d))
            res == call.result
        IN  /\ Len(res) = Min(call.n, Cardinality(cats))
            /\ \A k \in DOMAIN res :
                 res[k].category \in cats /\ res[k].amount = total(res[k].category)
            /\ \A k \in 1..(Len(res) - 1) :
                 /\ res[k].amount >= res[k + 1].amount
                 /\ Before(res[k].category, res[k + 1].category)
            /\ \A c \in cats : \A k \in DOMAIN res :
                 (\A j \in DOMAIN res : res[j].category # c)
                     => Before(res[k].category, c)

\* Two categories tie for the first place and n = 1 cuts between them.
C6_Witness ==
    /\ call.op = "get_top_categories"
    /\ call.n = 1
    /\ Len(call.result) = 1
    /\ \E i \in DOMAIN call.filtered :
         /\ call.filtered[i].category # call.result[1].category
         /\ AmountOr0(call.filtered[i]) = call.result[1].amount
         /\ call.result[1].amount > 0

\* C7: in the expense breakdown a category is kept iff its percentage of the
\* group total is >= the threshold; when the group total is zero every
\* percentage counts as 0, so every category is kept at threshold 0 and
\* excluded at a threshold above 0.
C7_Threshold ==
    (call.op = "create_expense_pie_chart" /\ call.result.kind = "fig") =>
        LET rows == data.rows
            pass == {i \in DOMAIN rows :
                       Passes(rows[i], call.selected_categories,
                              call.start_date, call.end_date, "Withdrawal")}
            cats == {rows[i].category : i \in pass}
            total(c) == TotalOver(rows, {i \in pass : rows[i].category = c})
            group == TotalOver(rows, pass)
            th == call.threshold
            AtLeast(c) == IF group = 0 THEN 0 >= th[1]
                          ELSE 100 * total(c) * th[2] >= th[1] * group
        IN  \A c \in cats :
              (\E k \in DOMAIN call.result.rows : call.result.rows[k].category = c)
                  <=> AtLeast(c)

Parseable(raw) == raw.date \in DOMAIN DateText

\* The table holds the rows of the file whose date parses, each with a
\* parsed date and a category, and the load raised nothing.
LoadedRowsKept ==
    /\ ~call.raised
    /\ Len(data.rows) = Cardinality({i \in DOMAIN file.rows : Parseable(file.rows[i])})
    /\ \A i \in DOMAIN data.rows :
         /\ data.rows[i].date # NaT
         /\ data.rows[i].category # Missing
         /\ \E j \in DOMAIN file.rows :
              /\ Parseable(file.rows[j])
              /\ file.rows[j].description = data.rows[i].description

-----------------------------------------------------------------------------
(* Properties of the transaction lookup and its export                     *)

\* The columns get_transactions returns, of a row of the table.
LookupRow(r) ==
    [date |-> r.date, description |-> r.description,
     amount |-> r.amount, type |-> r.type]

\* C11: for every Transaction Lookup result, writing it as the downloadable
\* CSV and passing that CSV to load_data succeeds and yields the same set of
\* rows as the lookup result.
C11_ExportRoundTrip ==
    call.op = "load_data_export" =>
        /\ ~call.raised
        /\ {LookupRow(call.value[i]) : i \in 1..Len(call.value)} = Range(call.lookup)

\* What the caller selects: a month and a category, or "All".
LookupPasses(r, category, month) ==
    r.month = month /\ (category = "All" \/ r.category = category)

\* C12: get_transactions returns exactly the rows of the selected month and
\* the selected category - every row of the month when the caller selects
\* "All", those defaulted to "Uncategorized" included - each as often as the
\* table holds it, ordered by date non-increasing (newest first).
C12_Lookup ==
    call.op = "get_transactions" =>
        LET passing == SelectSeq(data.rows,
                           LAMBDA r : LookupPasses(r, call.category, call.month))
            wanted == [k \in 1..Len(passing) |-> LookupRow(passing[k])]
        IN  /\ \A x \in Range(call.result) \cup Range(wanted) :
                  Occ(call.result, x) = Occ(wanted, x)
            /\ \A k \in 1..(Len(call.result) - 1) :
                  TsKey(call.result[k].date) >= TsKey(call.result[k + 1].date)

\* "All" is selected on a table whose older row comes first and which holds
\* a row defaulted to "Uncategorized": both rows are returned, newest first.
C12_Witness ==
    /\ call.op = "get_transactions"
    /\ call.category = "All"
    /\ Len(data.rows) = 2
    /\ Len(call.result) = 2
    /\ \E i \in 1..2 : data.rows[i].category = "Uncategorized"
    /\ TsKey(data.rows[1].date) < TsKey(data.rows[2].date)
    /\ call.result[1] = LookupRow(data.rows[2])
    /\ call.result[2] = LookupRow(data.rows[1])

-----------------------------------------------------------------------------
(* Properties of the app                                                   *)

\* The run on the screen got past the load with no category selected and a
\* date range that is a pair of dates.
EmptySelectionRun ==
    /\ call.op = "main"
    /\ call.loaded
    /\ call.table # <<>>
    /\ call.widgets.set
    /\ call.widgets.selected_categories = {}
    /\ Len(call.widgets.date_range) = 2

NothingByCategory ==
    /\ call.stage = "done"
    /\ call.top_income = <<>> /\ call.top_expenses = <<>>
    /\ call.income_summary = <<>> /\ call.expense_summary = <<>>

C9_LoadFailureEndsRun ==
    [][(~cache.loaded /\ ~file.readable /\ file' = file) =>
          /\ call'.op = "main"
          /\ call'.stage = "load_error"
          /\ call'.errors = <<"Error loading data">>
          /\ call'.sections = <<>>]_vars

\* A run that ended on the load error, after the file became unreadable.
C9_Witness ==
    /\ call.op = "main"
    /\ call.stage = "load_error"
    /\ ~file.readable
    /\ ~cache.loaded

\* C10: over any sequence of load_data calls and changes of the file, a call
\* with no change since the last call returns the cached table without
\* parsing again, and a call after a change parses the file again, so that
\* the table returned is always that of the file's current content.
C10_TableIsCurrent ==
    [][(file.readable /\ file' = file) =>
          /\ call'.op = "main"
          /\ call'.loaded
          /\ call'.table = Normalize(file.rows)
          /\ (cache.loaded /\ cache.rows = Normalize(file.rows)) => ~call'.parsed]_vars

\* The aggregation steps of main, in the order of the screen.
AggregationSteps ==
    <<"overview", "time_series", "bar_charts", "pie_chart", "top_income",
      "top_expenses", "income_summary", "expense_summary">>

\* C13: in a run of main after a successful load, an exception raised inside
\* an aggregation step is caught at that step and reported, and every later
\* section of the screen is still rendered - also when the date-range widget
\* returns a value that is not a pair of two dates.
C13_AggregationErrorsCaught ==
    (call.op = "main" /\ call.loaded) =>
        /\ ~(call.stage = "uncaught" /\ call.at \in Range(AggregationSteps))
        /\ call.errors # <<>> =>
              /\ call.stage = "done"
              /\ call.sections = AggregationSteps \o <<"transactions">>

=============================================================================
